---- MODULE Spec2Model ----
(***************************************************************************)
(* Model of a9bsp.AccessibleBSP (src/a9bsp.py): the element/ID registry,   *)
(* the constraint builders that compile assertions into CNF clauses, the   *)
(* SAT engine the class delegates to, the queries solution, solutions,     *)
(* minimal_solution and maximal_solution, and partition_solutions.         *)
(***************************************************************************)
EXTENDS Integers, Sequences, FiniteSets, TLC

\* clauses, e2id, id2e and variables are the object's attributes; `calls`
\* counts the calls made, `last` records the last call and its outcome,
\* `search` is the query in progress, and `called` is the set of includes
\* and excludes calls made so far.
VARIABLES clauses, e2id, id2e, variables, calls, last, search, called

vars == <<clauses, e2id, id2e, variables, calls, last, search, called>>

(***************************************************************************)
(* Bounds of the model and the inputs the operations are called with.      *)
(***************************************************************************)
\* `calls` counts the to_id, from_id and builder calls made on the object;
\* at most MaxCalls are made.
MaxCalls == 2

\* The calls made on an object that is asked for partitions (SpecPartition).
MaxPartitionCalls == 1

\* The calls made on an object that is asked every query (SpecSession).
MaxSessionCalls == 2

Elements == {"a", "b", "c"}

\* Python's None as the value of an omitted `n` (has_dependencies, n=None)
\* or an omitted max_group_size.
None == -1

\* The iterables handed to the builders: the lists of distinct elements, in
\* alphabetical order.  Other ID orders arise from earlier to_id calls.
ElementLists ==
    {<<>>, <<"a">>, <<"b">>, <<"c">>, <<"a", "b">>, <<"a", "c">>,
     <<"b", "c">>, <<"a", "b", "c">>}

\* The elements and the lists given to an object that is asked queries
\* (SpecSession).
Pair == {"a", "b"}

PairLists == {l \in ElementLists : \A i \in 1..Len(l) : l[i] \in Pair}

Range(s) == {s[i] : i \in 1..Len(s)}

(***************************************************************************)
(* ElementRegistry.  `self` is the registry part of the object; to_id is   *)
(* the registry after the call, to_id_ret the value the call returns.      *)
(***************************************************************************)
self == [e2id |-> e2id, id2e |-> id2e, variables |-> variables]

\* to_id without the membership test: a registered element gets a new ID.
to_id_always_new(r, element) ==
    [variables |-> r.variables + 1,
     e2id |-> [x \in DOMAIN r.e2id \cup {element} |->
                  IF x = element THEN r.variables + 1 ELSE r.e2id[x]],
     id2e |-> r.id2e @@ ((r.variables + 1) :> element)]

to_id(r, element) ==
    IF element \notin DOMAIN r.e2id
    THEN [variables |-> r.variables + 1,
          e2id |-> r.e2id @@ (element :> r.variables + 1),
          id2e |-> r.id2e @@ ((r.variables + 1) :> element)]
    ELSE r

to_id_ret(r, element) == to_id(r, element).e2id[element]

\* [self.to_id(e) for e in elements]: the registry after all the calls.
RECURSIVE to_id_each(_, _)
to_id_each(r, elements) ==
    IF elements = <<>> THEN r
    ELSE to_id_each(to_id(r, Head(elements)), Tail(elements))

\* [self.to_id(e) for e in elements]: the list of IDs.
to_id_list(r, elements) ==
    [i \in 1..Len(elements) |->
        to_id_ret(to_id_each(r, SubSeq(elements, 1, i - 1)), elements[i])]

\* itertools.combinations(s, r) for r >= 0: the r-length subsequences of s in
\* lexicographic order of their positions.
RECURSIVE combinations(_, _)
combinations(s, r) ==
    IF r = 0 THEN << <<>> >>
    ELSE IF Len(s) < r THEN <<>>
    ELSE LET with == combinations(Tail(s), r - 1)
             without == combinations(Tail(s), r)
         IN [i \in 1..Len(with) |-> <<Head(s)>> \o with[i]] \o without

Negate(ids) == [i \in 1..Len(ids) |-> -ids[i]]

(***************************************************************************)
(* The clauses each builder appends, given the IDs of its arguments.       *)
(***************************************************************************)
\* mutually_excludes as pairwise exclusion: one clause per pair.
mutually_excludes_pairwise(ids) ==
    [i \in 1..Len(combinations(ids, 2)) |-> Negate(combinations(ids, 2)[i])]

mutually_excludes_clauses(ids) == <<Negate(ids)>>

\* includes_any with combinations of length n.
includes_any_length_n(ids, n) == combinations(ids, n)

includes_any_clauses(ids, n) == combinations(ids, Len(ids) + 1 - n)

\* has_codependencies with one implication per pair only.
RECURSIVE codependency_one_way(_)
codependency_one_way(pairs) ==
    IF pairs = <<>> THEN <<>>
    ELSE <<<<Head(pairs)[1], -Head(pairs)[2]>>>>
            \o codependency_one_way(Tail(pairs))

RECURSIVE codependency_pairs(_)
codependency_pairs(pairs) ==
    IF pairs = <<>> THEN <<>>
    ELSE LET j == Head(pairs)[1]
             k == Head(pairs)[2]
         IN <<<<j, -k>>, <<-j, k>>>> \o codependency_pairs(Tail(pairs))

has_codependencies_clauses(ids) == codependency_pairs(combinations(ids, 2))

\* has_dependencies with an omitted n read as 1.
has_dependencies_default_one(eid, on, n) ==
    LET m == IF n = None THEN 1 ELSE n
        combos == combinations(on, Len(on) + 1 - m)
    IN [i \in 1..Len(combos) |-> <<-eid>> \o combos[i]]

has_dependencies_clauses(eid, on, n) ==
    LET len_on == Len(on)
        m == IF n = None THEN len_on ELSE n
        combos == combinations(on, len_on + 1 - m)
    IN [i \in 1..Len(combos) |-> <<-eid>> \o combos[i]]

(***************************************************************************)
(* State after construction (__init__).                                    *)
(***************************************************************************)
NoCall == [op |-> "init", exc |-> ""]

Idle == [pc |-> "idle"]

Init ==
    /\ clauses = <<>>
    /\ e2id = <<>>
    /\ id2e = <<>>
    /\ variables = 0
    /\ calls = 0
    /\ last = NoCall
    /\ search = Idle
    /\ called = {}

SetRegistry(r) ==
    /\ e2id' = r.e2id
    /\ id2e' = r.id2e
    /\ variables' = r.variables

CanCall == search.pc = "idle"

(***************************************************************************)
(* Registry operations.                                                    *)
(***************************************************************************)
ToId(element) ==
    /\ CanCall
    /\ SetRegistry(to_id(self, element))
    /\ calls' = calls + 1
    /\ last' = [op |-> "to_id", element |-> element, exc |-> "",
                ret |-> to_id_ret(self, element), base |-> Len(clauses)]
    /\ UNCHANGED <<clauses, search, called>>

\* from_id reading the table as if IDs started at 0.
from_id_zero_based(r, eid) ==
    IF eid + 1 \in DOMAIN r.id2e
    THEN [exc |-> "", ret |-> r.id2e[eid + 1]]
    ELSE [exc |-> "KeyError", ret |-> ""]

from_id(r, eid) ==
    IF eid \in DOMAIN r.id2e
    THEN [exc |-> "", ret |-> r.id2e[eid]]
    ELSE [exc |-> "KeyError", ret |-> ""]

FromId(eid) ==
    /\ CanCall
    /\ calls' = calls + 1
    /\ last' = [op |-> "from_id", eid |-> eid, base |-> Len(clauses),
                exc |-> from_id(self, eid).exc, ret |-> from_id(self, eid).ret]
    /\ UNCHANGED <<clauses, e2id, id2e, variables, search, called>>

(***************************************************************************)
(* Constraint builders.                                                    *)
(***************************************************************************)
\* The includes and excludes calls a builder call makes: includes_all calls
\* includes on each element (lines 104-105).
made(op, args) ==
    IF op = "includes" THEN {<<"includes", args.element>>}
    ELSE IF op = "excludes" THEN {<<"excludes", args.element>>}
    ELSE IF op = "includes_all"
    THEN {<<"includes", args.elements[i]>> : i \in 1..Len(args.elements)}
    ELSE {}

\* A builder that assigns the clause list instead of appending to it.
Built_assigning(op, args, r, new, exc) ==
    /\ SetRegistry(r)
    /\ clauses' = new
    /\ calls' = calls + 1
    /\ last' = [op |-> op, args |-> args, exc |-> exc, base |-> Len(clauses)]
    /\ called' = called \cup made(op, args)
    /\ UNCHANGED search

Built(op, args, r, new, exc) ==
    /\ SetRegistry(r)
    /\ clauses' = clauses \o new
    /\ calls' = calls + 1
    /\ last' = [op |-> op, args |-> args, exc |-> exc, base |-> Len(clauses)]
    /\ called' = called \cup made(op, args)
    /\ UNCHANGED search

MutuallyExcludes(elements) ==
    /\ CanCall
    /\ Built("mutually_excludes", [elements |-> elements],
             to_id_each(self, elements),
             mutually_excludes_clauses(to_id_list(self, elements)), "")

\* includes appending the clause of excludes.
includes_clauses_negated(eid) == <<<<-eid>>>>

\* Line 98: the one clause [to_id(element)].
includes_clauses(eid) == <<<<eid>>>>

Includes(element) ==
    /\ CanCall
    /\ Built("includes", [element |-> element], to_id(self, element),
             includes_clauses(to_id_ret(self, element)), "")

IncludesAll(elements) ==
    /\ CanCall
    /\ Built("includes_all", [elements |-> elements],
             to_id_each(self, elements),
             [i \in 1..Len(elements) |->
                 includes_clauses(to_id_list(self, elements)[i])[1]], "")

\* combinations() raises ValueError for a negative length, after the
\* elements were registered.
IncludesAny(elements, n) ==
    /\ CanCall
    /\ LET ids == to_id_list(self, elements)
           ok == Len(ids) + 1 - n >= 0
       IN Built("includes_any", [elements |-> elements, n |-> n],
                to_id_each(self, elements),
                IF ok THEN includes_any_clauses(ids, n) ELSE <<>>,
                IF ok THEN "" ELSE "ValueError")

Excludes(element) ==
    /\ CanCall
    /\ Built("excludes", [element |-> element], to_id(self, element),
             <<<<-to_id_ret(self, element)>>>>, "")

HasCodependencies(elements) ==
    /\ CanCall
    /\ Built("has_codependencies", [elements |-> elements],
             to_id_each(self, elements),
             has_codependencies_clauses(to_id_list(self, elements)), "")

HasDependencies(element, on, n) ==
    /\ CanCall
    /\ LET r1 == to_id(self, element)
           eid == to_id_ret(self, element)
           ids == to_id_list(r1, on)
           m == IF n = None THEN Len(ids) ELSE n
           ok == Len(ids) + 1 - m >= 0
       IN Built("has_dependencies",
                [element |-> element, on |-> on, n |-> n],
                to_id_each(r1, on),
                IF ok THEN has_dependencies_clauses(eid, ids, n) ELSE <<>>,
                IF ok THEN "" ELSE "ValueError")

(***************************************************************************)
(* The SAT engine (pycosat).  A model lists every variable 1..nvars with    *)
(* the sign of its truth value; nvars is the largest variable the clauses  *)
(* mention.                                                                *)
(***************************************************************************)
Abs(x) == IF x < 0 THEN -x ELSE x

Max(S) == IF S = {} THEN 0 ELSE CHOOSE x \in S : \A y \in S : y <= x

nvars(cl) == Max(UNION {{Abs(x) : x \in Range(cl[i])} : i \in 1..Len(cl)})

\* The clause (an OR of literals) under the assignment making exactly the
\* variables of `true` true.
Satisfied(clause, true) ==
    \E i \in 1..Len(clause) :
        \/ clause[i] > 0 /\ clause[i] \in true
        \/ clause[i] < 0 /\ -clause[i] \notin true

AsModel(true, n) == [i \in 1..n |-> IF i \in true THEN i ELSE -i]

\* pycosat.itersolve(clauses): every model, each once.
itersolve(cl) ==
    {AsModel(true, nvars(cl)) : true \in
        {t \in SUBSET (1..nvars(cl)) :
            \A i \in 1..Len(cl) : Satisfied(cl[i], t)}}

\* pycosat.solve(clauses) when no model is returned: the engine's report.
\* `limited` is the engine giving up at its search limit.
solve_report(cl, limited) ==
    IF limited THEN "UNKNOWN"
    ELSE IF itersolve(cl) = {} THEN "UNSAT" ELSE "SAT"

positive(solution) == {i \in Range(solution) : i > 0}

RECURSIVE Listings(_)
Listings(S) ==
    IF S = {} THEN {<<>>}
    ELSE UNION {{<<x>> \o l : l \in Listings(S \ {x})} : x \in S}

\* The orders in which the engine may yield its models.  The engine fixes
\* none; the orders drawn list the models by growing number of true
\* variables, in every order among models of equal size.
RECURSIVE ByGrowingSize(_, _, _)
ByGrowingSize(S, k, n) ==
    IF k > n THEN {<<>>}
    ELSE {h \o t :
            h \in Listings({m \in S : Cardinality(positive(m)) = k}),
            t \in ByGrowingSize(S, k + 1, n)}

EngineOrders(cl) == ByGrowingSize(itersolve(cl), 0, nvars(cl))

remap_solution(r, solution) ==
    {from_id(r, i).ret : i \in {x \in solution : x > 0}}

\* `solution` taking UNKNOWN for UNSAT.
solution_exc_conflated(report) ==
    IF report \in {"UNSAT", "UNKNOWN"} THEN "UnsatisfiableConstraints" ELSE ""

\* The error `solution` raises for an engine report, "" when it returns.
solution_exc(report) ==
    IF report = "UNSAT" THEN "UnsatisfiableConstraints"
    ELSE IF report = "UNKNOWN" THEN "SolutionNotFound"
    ELSE ""

(***************************************************************************)
(* The queries.  `search` is the query in progress, Idle between calls.    *)
(***************************************************************************)
\* A query that empties the clause list it hands to the engine.
ReadsOnly_consuming ==
    /\ clauses' = <<>>
    /\ UNCHANGED <<e2id, id2e, variables, calls, called>>

\* Lines 145-298 assign no attribute of the object and call none of its
\* methods but solution, solutions, remap_solution and from_id.
ReadsOnly == UNCHANGED <<clauses, e2id, id2e, variables, calls, called>>

\* The models pycosat.solve may return: any one of them, none when it
\* reports UNSAT or UNKNOWN.
solve_models(cl, limited) ==
    IF solve_report(cl, limited) = "SAT" THEN itersolve(cl) ELSE {<<>>}

\* Lines 150-158, `model` being the engine's answer when it has one.
Solution(model, limited) ==
    /\ CanCall
    /\ LET report == solve_report(clauses, limited)
       IN last' = [op |-> "solution", limited |-> limited,
                   report |-> report, model |-> model,
                   exc |-> solution_exc(report),
                   ret |-> IF solution_exc(report) = ""
                           THEN remap_solution(self, Range(model)) ELSE {},
                   base |-> Len(clauses)]
    /\ ReadsOnly
    /\ UNCHANGED search

\* The generator ending without a word when the engine gave no model.
solutions_end_silent(solution_found, report) ==
    [invoked |-> FALSE, exc |-> ""]

\* Lines 205-207: the end of the generator.  `invoked` is whether it read
\* self.solution, `exc` the error that read raised.
solutions_end(solution_found, report) ==
    IF solution_found THEN [invoked |-> FALSE, exc |-> ""]
    ELSE [invoked |-> TRUE, exc |-> solution_exc(report)]

\* The enumerations pycosat.itersolve may make: none of any model when the
\* engine gives up.
solutions_orders(cl, limited) ==
    IF limited THEN {<<>>} ELSE EngineOrders(cl)

\* Lines 200-207, iterated to its end: `order` is the engine's enumeration.
Solutions(order, limited) ==
    /\ CanCall
    /\ LET end == solutions_end(order # <<>>, solve_report(clauses, limited))
       IN last' = [op |-> "solutions", limited |-> limited,
                   report |-> solve_report(clauses, limited),
                   yielded |-> [i \in 1..Len(order) |->
                                   remap_solution(self, Range(order[i]))],
                   invoked |-> end.invoked, exc |-> end.exc,
                   base |-> Len(clauses)]
    /\ ReadsOnly
    /\ UNCHANGED search

\* The record of a minimal_solution or maximal_solution call that began.
\* `last` of the iteration is None (<<>>) or the one solution kept; `left`
\* is the number of models the engine had yet to yield when the loop ended.
ScanCall(op, limited) ==
    [op |-> op, limited |-> limited, exc |-> "", ret |-> <<>>, left |-> 0,
     base |-> Len(clauses)]

Scanning(op, limited) ==
    [pc |-> op, limited |-> limited,
     rest |-> IF limited THEN {} ELSE itersolve(clauses),
     seen |-> {}, last |-> <<>>]

\* Lines 167-168: minimal_solution starts iterating self.solutions.
MinimalSolution(limited) ==
    /\ CanCall
    /\ last' = ScanCall("minimal_solution", limited)
    /\ search' = Scanning("minimal_solution", limited)
    /\ ReadsOnly

\* Lines 168-173: the loop body for the next solution the engine yields.
\* With `last` set, line 169 reads `lastlen`, a name bound nowhere.
MinimalSolutionNext(model) ==
    /\ search.pc = "minimal_solution"
    /\ model \in search.rest
    /\ LET solution == remap_solution(self, Range(model))
       IN IF search.last # <<>>
          THEN /\ last' = [last EXCEPT !.exc = "NameError",
                                  !.left = Cardinality(search.rest) - 1]
               /\ search' = Idle
          ELSE IF solution = {}
          THEN /\ last' = [last EXCEPT !.ret = <<solution>>,
                                  !.left = Cardinality(search.rest) - 1]
               /\ search' = Idle
          ELSE /\ search' = [search EXCEPT !.rest = @ \ {model},
                                !.seen = @ \cup {solution},
                                !.last = <<solution>>]
               /\ UNCHANGED last
    /\ ReadsOnly

\* Lines 205-207 and 175: the enumeration is over.
MinimalSolutionEnd ==
    /\ search.pc = "minimal_solution"
    /\ search.rest = {}
    /\ LET end == solutions_end(search.seen # {},
                      solve_report(clauses, search.limited))
       IN last' = [last EXCEPT !.exc = end.exc,
                      !.ret = IF end.exc = "" THEN search.last ELSE <<>>]
    /\ search' = Idle
    /\ ReadsOnly

\* maximal_solution keeping the smaller solution.
maximal_keeps_smaller(kept, solution) ==
    kept = <<>> \/ Cardinality(solution) < Cardinality(kept[1])

\* Line 187: whether `solution` replaces the solution kept.
maximal_keeps(kept, solution) ==
    kept = <<>> \/ Cardinality(solution) > Cardinality(kept[1])

\* Lines 184-185: maximal_solution starts iterating self.solutions.
MaximalSolution(limited) ==
    /\ CanCall
    /\ last' = ScanCall("maximal_solution", limited)
    /\ search' = Scanning("maximal_solution", limited)
    /\ ReadsOnly

\* Lines 185-191: the loop body for the next solution the engine yields.
MaximalSolutionNext(model) ==
    /\ search.pc = "maximal_solution"
    /\ model \in search.rest
    /\ LET solution == remap_solution(self, Range(model))
           kept == IF maximal_keeps(search.last, solution)
                   THEN <<solution>> ELSE search.last
       IN IF /\ maximal_keeps(search.last, solution)
             /\ Cardinality(solution) = variables
          THEN /\ last' = [last EXCEPT !.ret = kept,
                                  !.left = Cardinality(search.rest) - 1]
               /\ search' = Idle
          ELSE /\ search' = [search EXCEPT !.rest = @ \ {model},
                                !.seen = @ \cup {solution},
                                !.last = kept]
               /\ UNCHANGED last
    /\ ReadsOnly

\* Lines 205-207 and 193: the enumeration is over.
MaximalSolutionEnd ==
    /\ search.pc = "maximal_solution"
    /\ search.rest = {}
    /\ LET end == solutions_end(search.seen # {},
                      solve_report(clauses, search.limited))
       IN last' = [last EXCEPT !.exc = end.exc,
                      !.ret = IF end.exc = "" THEN search.last ELSE <<>>]
    /\ search' = Idle
    /\ ReadsOnly

(***************************************************************************)
(* partition_solutions.                                                    *)
(***************************************************************************)
\* The values partition_solutions is given for max_group_size.
GroupSizes == {None, 0, 1, 2}

\* The filter of lines 225-226 left out: every solution is a candidate.
candidates_unfiltered(order, max_group_size) ==
    [i \in 1..Len(order) |-> positive(order[i])]

\* The candidates kept from the enumeration `order` (lines 219-226).
candidates(order, max_group_size) ==
    LET solsets == [i \in 1..Len(order) |-> positive(order[i])]
        Keep(solset) ==
            max_group_size = None \/ Cardinality(solset) <= max_group_size
    IN SelectSeq(solsets, Keep)

RECURSIVE sort_from(_, _)
sort_from(solutions, k) ==
    IF k < 0 THEN <<>>
    ELSE LET OfSize(x) == Cardinality(x) = k
         IN SelectSeq(solutions, OfSize) \o sort_from(solutions, k - 1)

\* solutions.sort(key=lambda x: -len(x)): stable, largest first.
sort_by_size(solutions) ==
    sort_from(solutions, Max({Cardinality(x) : x \in Range(solutions)}))

Last(s) == s[Len(s)]

\* The pruning rules without the test against the pool.
admissible_overlapping(solution, vertex, pool, max_size) ==
    ~ \/ Cardinality(solution) > max_size
      \/ solution \in Range(vertex)

\* The pruning rules [P] of the search, negated: the candidate is kept.
admissible(solution, vertex, pool, max_size) ==
    ~ \/ Cardinality(solution) > max_size
      \/ solution \in Range(vertex)
      \/ solution \cap pool # {}

\* The loop over the candidates of `vertex` from the i-th on (lines 281-293):
\* the edges list after it, or the path that covers the pool.
RECURSIVE scan(_, _, _, _, _, _)
scan(cands, i, vertex, pool, target_pool_size, edges) ==
    IF i > Len(cands) THEN [found |-> FALSE, edges |-> edges, path |-> <<>>]
    ELSE LET solution == cands[i]
             max_size == target_pool_size - Cardinality(pool)
             new_vertex == Append(vertex, solution)
         IN IF ~admissible(solution, vertex, pool, max_size)
            THEN scan(cands, i + 1, vertex, pool, target_pool_size, edges)
            ELSE IF Cardinality(pool) + Cardinality(solution)
                        = target_pool_size
            THEN [found |-> TRUE, edges |-> edges, path |-> new_vertex]
            ELSE scan(cands, i + 1, vertex, pool, target_pool_size,
                      Append(edges, new_vertex))

\* What expanding `vertex` (not yet in the graph) computes (lines 267-293).
\* `edges` is a reference into the heap of list objects: a vertex of length 1
\* gets a new list, any other vertex the very list of its parent.
expand(st, vertex) ==
    LET root == Len(vertex) = 1
        parent == SubSeq(vertex, 1, Len(vertex) - 1)
        ref == IF root THEN Len(st.heap) + 1 ELSE st.graph[parent].edges
        heap == IF root THEN Append(st.heap, <<>>) ELSE st.heap
        pool == IF root THEN vertex[1]
                ELSE st.graph[parent].pool \cup Last(vertex)
        cands == IF root THEN st.solutions
                 ELSE [i \in 1..Len(heap[ref]) |-> Last(heap[ref][i])]
        r == scan(cands, 1, vertex, pool, st.target_pool_size, heap[ref])
    IN [found |-> r.found, path |-> r.path, ref |-> ref, pool |-> pool,
        heap |-> [heap EXCEPT ![ref] = r.edges]]

\* Lines 228-233 with the two branches exchanged.
no_candidate_exc_swapped(actually_had_solution, report) ==
    IF ~actually_had_solution THEN "ValueError" ELSE solution_exc(report)

\* Lines 228-233: no candidate is left.
no_candidate_exc(actually_had_solution, report) ==
    IF actually_had_solution THEN "ValueError" ELSE solution_exc(report)

PartitionCall(max_group_size, limited, exc, ret) ==
    [op |-> "partition_solutions",
     args |-> [max_group_size |-> max_group_size], limited |-> limited,
     exc |-> exc, ret |-> ret, base |-> Len(clauses)]

\* Lines 219-240: enumerate, filter, and either end at once or set up the
\* search.
PartitionSolutions(max_group_size, order, limited) ==
    /\ search.pc = "idle"
    /\ LET enum == IF limited THEN <<>> ELSE order
           solutions == candidates(enum, max_group_size)
           actually_had_solution == enum # <<>>
       IN IF solutions = <<>>
          THEN /\ last' = PartitionCall(max_group_size, limited,
                    no_candidate_exc(actually_had_solution,
                        solve_report(clauses, limited)), <<>>)
               /\ search' = Idle
          ELSE IF Len(solutions) = 1
          THEN /\ last' = PartitionCall(max_group_size, limited, "",
                              <<remap_solution(self, solutions[1])>>)
               /\ search' = Idle
          ELSE /\ last' = PartitionCall(max_group_size, limited, "", <<>>)
               /\ search' =
                     [pc |-> "search",
                      target_pool_size |->
                          Cardinality(UNION Range(solutions)),
                      solutions |-> sort_by_size(solutions),
                      next |-> 1, stack |-> <<>>, graph |-> <<>>,
                      heap |-> <<>>]
    /\ ReadsOnly

\* The test of line 266 left out: a path is expanded whenever it is popped.
visited_never(graph, vertex) == FALSE

\* Line 266, negated: `vertex` was expanded since the search last started.
visited(graph, vertex) == vertex \in DOMAIN graph

\* Lines 258-260: the next starting candidate, with a fresh stack and graph.
SearchStart ==
    /\ search.pc = "search"
    /\ search.stack = <<>>
    /\ search.next <= Len(search.solutions)
    /\ search' = [search EXCEPT !.next = @ + 1,
                     !.stack = <<<<search.solutions[search.next]>>>>,
                     !.graph = <<>>, !.heap = <<>>]
    /\ ReadsOnly
    /\ UNCHANGED last

\* Lines 262-296: one turn of the while loop.
SearchExpand ==
    /\ search.pc = "search"
    /\ search.stack # <<>>
    /\ LET vertex == Last(search.stack)
           rest == SubSeq(search.stack, 1, Len(search.stack) - 1)
           x == expand(search, vertex)
       IN IF visited(search.graph, vertex)
          THEN /\ search' = [search EXCEPT !.stack = rest]
               /\ UNCHANGED last
          ELSE IF x.found
          THEN /\ last' = [last EXCEPT !.ret =
                              [i \in 1..Len(x.path) |->
                                  remap_solution(self, x.path[i])]]
               /\ search' = Idle
          ELSE /\ search' = [search EXCEPT
                                !.heap = x.heap,
                                !.graph = @ @@ (vertex :>
                                    [edges |-> x.ref, pool |-> x.pool]),
                                !.stack = rest \o x.heap[x.ref]]
               /\ UNCHANGED last
    /\ ReadsOnly

\* Line 298: every starting candidate was tried.
SearchExhausted ==
    /\ search.pc = "search"
    /\ search.stack = <<>>
    /\ search.next > Len(search.solutions)
    /\ last' = [last EXCEPT !.exc = "UnsatisfiableConstraints"]
    /\ search' = Idle
    /\ ReadsOnly

\* The calls that change the problem, with the inputs they are given, drawn
\* from `elements` and `lists`; at most `budget` of them are made.
BuildOver(budget, elements, lists) ==
    \/ \E e \in elements : calls < budget /\ ToId(e)
    \/ \E l \in lists : calls < budget /\ MutuallyExcludes(l)
    \/ \E e \in elements : calls < budget /\ Includes(e)
    \/ \E l \in lists : calls < budget /\ IncludesAll(l)
    \/ \E l \in lists :
          \E n \in 1..(IF l = <<>> THEN 1 ELSE Len(l)) :
             calls < budget /\ IncludesAny(l, n)
    \/ \E e \in elements : calls < budget /\ Excludes(e)
    \/ \E l \in lists : calls < budget /\ HasCodependencies(l)
    \/ \E e \in elements : \E l \in lists :
          \E n \in {None} \cup (1..Len(l)) :
             calls < budget /\ HasDependencies(e, l, n)

Build(budget) == BuildOver(budget, Elements, ElementLists)

Next ==
    \/ Build(MaxCalls)
    \/ \E i \in 0..(variables + 1) : calls < MaxCalls /\ FromId(i)

Spec == Init /\ [][Next]_vars

NextPartition ==
    \/ Build(MaxPartitionCalls)
    \/ \E limited \in BOOLEAN :
          \E order \in solutions_orders(clauses, limited) :
             \E m \in GroupSizes : PartitionSolutions(m, order, limited)
    \/ SearchStart
    \/ SearchExpand
    \/ SearchExhausted

SpecPartition == Init /\ [][NextPartition]_vars

\* A search that began runs on: the loops of lines 258-296 are one call.
SpecPartitionFair ==
    SpecPartition /\ WF_vars(SearchStart \/ SearchExpand \/ SearchExhausted)

\* An object over two elements that is built and asked every query.
NextSession ==
    \/ BuildOver(MaxSessionCalls, Pair, PairLists)
    \/ \E limited \in BOOLEAN :
          \E model \in solve_models(clauses, limited) :
             Solution(model, limited)
    \/ \E limited \in BOOLEAN :
          \E order \in solutions_orders(clauses, limited) :
             Solutions(order, limited)
    \/ \E limited \in BOOLEAN : MinimalSolution(limited)
    \/ \E model \in itersolve(clauses) : MinimalSolutionNext(model)
    \/ MinimalSolutionEnd
    \/ \E limited \in BOOLEAN : MaximalSolution(limited)
    \/ \E model \in itersolve(clauses) : MaximalSolutionNext(model)
    \/ MaximalSolutionEnd
    \/ \E limited \in BOOLEAN :
          \E order \in solutions_orders(clauses, limited) :
             \E m \in GroupSizes : PartitionSolutions(m, order, limited)
    \/ SearchStart
    \/ SearchExpand
    \/ SearchExhausted

SpecSession == Init /\ [][NextSession]_vars

(***************************************************************************)
(* Properties.                                                             *)
(***************************************************************************)
\* The clauses the last call appended.
Added == SubSeq(clauses, last.base + 1, Len(clauses))

\* The IDs the registry now gives the listed elements.
IdsOf(elements) == [i \in 1..Len(elements) |-> e2id[elements[i]]]

\* The truth assignments over the registered variables, each as the set of
\* true variables.
Assignments == SUBSET (1..variables)

AllAdded(true) == \A i \in 1..Len(Added) : Satisfied(Added[i], true)

\* The elements the last call handed to to_id, in the order it did.
Registered(call) ==
    IF call.op = "to_id" THEN <<call.element>>
    ELSE IF call.op \in {"includes", "excludes"} THEN <<call.args.element>>
    ELSE IF call.op \in {"mutually_excludes", "includes_all",
                         "includes_any", "has_codependencies"}
    THEN call.args.elements
    ELSE IF call.op = "has_dependencies"
    THEN <<call.args.element>> \o call.args.on
    ELSE <<>>

RegistryIsBijection ==
    /\ DOMAIN id2e = 1..variables
    /\ \A e \in DOMAIN e2id : e2id[e] \in 1..variables /\ id2e[e2id[e]] = e
    /\ \A i \in 1..variables : id2e[i] \in DOMAIN e2id /\ e2id[id2e[i]] = i
    /\ \A e, f \in DOMAIN e2id : e2id[e] = e2id[f] => e = f

RegistryStep ==
    LET seen == Registered(last')
        IsNew(e) == e \notin DOMAIN e2id
        First(k) == \A h \in 1..(k - 1) : seen[h] # seen[k]
    IN /\ DOMAIN e2id' = DOMAIN e2id \cup Range(seen)
       /\ \A e \in DOMAIN e2id : e2id'[e] = e2id[e]
       /\ \A i \in DOMAIN id2e : id2e'[i] = id2e[i]
       /\ {e2id'[e] : e \in {x \in Range(seen) : IsNew(x)}}
              = (variables + 1)..variables'
       /\ \A i, j \in 1..Len(seen) :
             (i < j /\ IsNew(seen[i]) /\ IsNew(seen[j])
                    /\ First(i) /\ First(j))
                 => e2id'[seen[i]] < e2id'[seen[j]]
       /\ last'.op = "to_id" =>
             /\ last'.ret = e2id'[last'.element]
             /\ ~IsNew(last'.element) =>
                    UNCHANGED <<e2id, id2e, variables>>

\* C5: after any sequence of to_id and builder calls the registry is a
\* bijection between the elements seen so far and the IDs 1..variables; a
\* call keeps every existing binding, gives the elements it sees for the
\* first time the next unused IDs in the order it sees them, and to_id of a
\* registered element returns its ID and leaves the registry as it is.
C5_RegistryBijection == []RegistryIsBijection /\ [][RegistryStep]_vars

\* A registered element is handed to to_id again, after two elements were
\* registered out of alphabetical order.
C5_Witness ==
    /\ last.op = "to_id"
    /\ last.element = "b"
    /\ last.ret = 1
    /\ e2id = [a |-> 2, b |-> 1]
    /\ variables = 2

RoundTrip ==
    \A e \in DOMAIN e2id :
        from_id(self, to_id_ret(self, e)) = [exc |-> "", ret |-> e]

FromIdStep ==
    last'.op = "from_id" =>
        /\ UNCHANGED <<clauses, e2id, id2e, variables>>
        /\ IF last'.eid < 1 \/ last'.eid > variables
           THEN last'.exc = "KeyError"
           ELSE last'.exc = "" /\ e2id[last'.ret] = last'.eid

\* C6: from_id(to_id(e)) = e for every registered element e; from_id of an
\* ID that was never assigned (below 1 or above variables) fails with a
\* lookup error and leaves the registry and the clause list unchanged.
C6_FromIdInverse == []RoundTrip /\ [][FromIdStep]_vars

C6_Witness ==
    /\ last.op = "from_id"
    /\ last.exc = "KeyError"
    /\ last.eid = variables + 1
    /\ variables = 2
    /\ clauses # <<>>

\* C7: for m distinct elements and 1 <= n <= m, includes_any(elements, n)
\* appends exactly one clause of positive literals per (m-n+1)-subset of the
\* elements, and an assignment satisfies all of them iff at least n of the
\* elements are true.
C7_IncludesAny ==
    (last.op = "includes_any" /\ last.args.n >= 1
        /\ last.args.n <= Len(last.args.elements)) =>
    LET ids == Range(IdsOf(last.args.elements))
        n == last.args.n
        subsets == {S \in SUBSET ids : Cardinality(S) = Cardinality(ids) + 1 - n}
    IN /\ last.exc = ""
       /\ Len(Added) = Cardinality(subsets)
       /\ {Range(Added[i]) : i \in 1..Len(Added)} = subsets
       /\ \A i \in 1..Len(Added) : Len(Added[i]) = Cardinality(ids) + 1 - n
       /\ \A true \in Assignments :
             AllAdded(true) <=> Cardinality(true \cap ids) >= n

\* includes_any({a,b,c}, n=2) was called.
C7_Witness ==
    /\ last.op = "includes_any"
    /\ Len(last.args.elements) = 3
    /\ last.args.n = 2
    /\ Len(Added) = 3

\* C8: for `on` of m distinct elements and 1 <= n <= m (n = m when omitted),
\* an assignment satisfies all clauses appended by
\* has_dependencies(element, on, n) iff element is false or at least n
\* members of `on` are true.
C8_HasDependencies ==
    (last.op = "has_dependencies"
        /\ (last.args.n = None
              \/ (last.args.n >= 1 /\ last.args.n <= Len(last.args.on)))) =>
    LET on == Range(IdsOf(last.args.on))
        eid == e2id[last.args.element]
        n == IF last.args.n = None THEN Len(last.args.on) ELSE last.args.n
    IN /\ last.exc = ""
       /\ \A true \in Assignments :
             AllAdded(true) <=>
                 (eid \notin true \/ Cardinality(true \cap on) >= n)

\* has_dependencies(a, on={b,c}, n=1) was called.
C8_Witness ==
    /\ last.op = "has_dependencies"
    /\ last.args = [element |-> "a", on |-> <<"b", "c">>, n |-> 1]
    /\ Added # <<>>

\* C9: has_codependencies(elements) appends the two clauses [j,-k] and
\* [-j,k] for every unordered pair of the elements' IDs, and an assignment
\* satisfies all of them iff all listed elements have the same truth value.
C9_HasCodependencies ==
    last.op = "has_codependencies" =>
    LET ids == IdsOf(last.args.elements)
        pairs == {<<a, b>> \in (1..Len(ids)) \X (1..Len(ids)) : a < b}
    IN /\ Len(Added) = 2 * Cardinality(pairs)
       /\ {Added[i] : i \in 1..Len(Added)} =
             UNION {{<<ids[p[1]], -ids[p[2]]>>, <<-ids[p[1]], ids[p[2]]>>} :
                       p \in pairs}
       /\ \A true \in Assignments :
             AllAdded(true) <=>
                 \A j, k \in Range(ids) : (j \in true) = (k \in true)

\* has_codependencies was called on three elements.
C9_Witness ==
    /\ last.op = "has_codependencies"
    /\ Len(last.args.elements) = 3
    /\ Len(Added) = 6

PartitionEnded == last.op = "partition_solutions" /\ search.pc = "idle"

PartitionReturned == PartitionEnded /\ last.exc = ""

\* The solutions the engine enumerated for the call, as sets of IDs.
Enumerated ==
    IF last.limited THEN {}
    ELSE {positive(m) : m \in itersolve(clauses)}

\* Those that pass the max_group_size filter.
Kept ==
    {s \in Enumerated :
        last.args.max_group_size = None
            \/ Cardinality(s) <= last.args.max_group_size}

ElementsOf(ids) == {id2e[i] : i \in ids}

Groups == {last.ret[i] : i \in 1..Len(last.ret)}

\* C1: whenever partition_solutions returns, the returned groups are
\* pairwise disjoint and their union is the target pool, the union of all
\* candidates that passed the max_group_size filter.
C1_PartitionIsDisjointCover ==
    PartitionReturned =>
        /\ \A i, j \in 1..Len(last.ret) :
              i # j => last.ret[i] \cap last.ret[j] = {}
        /\ UNION Groups = ElementsOf(UNION Kept)

\* The search returned at least three groups covering three elements.
C1_Witness ==
    /\ PartitionReturned
    /\ Len(last.ret) >= 3
    /\ UNION Groups = {"a", "b", "c"}
    /\ Cardinality(Kept) > 3

\* A collection of pairwise disjoint candidates whose union is the pool.
ExactCoverExists ==
    \E G \in SUBSET Kept :
        /\ G # {}
        /\ \A s, t \in G : s # t => s \cap t = {}
        /\ UNION G = UNION Kept

\* C2: with at least two candidates left by the filter, partition_solutions
\* fails with UnsatisfiableConstraints only if no collection of pairwise
\* disjoint candidates has the target pool as its union.
C2_FailsOnlyWithoutCover ==
    (PartitionEnded /\ Cardinality(Kept) >= 2
        /\ last.exc = "UnsatisfiableConstraints") => ~ExactCoverExists

\* C3: every returned group is one of the solutions the engine enumerated
\* for the current clauses, appears once, and is no larger than
\* max_group_size when that is given.
C3_GroupsAreSolutions ==
    PartitionReturned =>
        /\ \A i \in 1..Len(last.ret) :
              /\ last.ret[i] \in {ElementsOf(s) : s \in Enumerated}
              /\ last.args.max_group_size # None =>
                    Cardinality(last.ret[i]) <= last.args.max_group_size
        /\ \A i, j \in 1..Len(last.ret) : i # j => last.ret[i] # last.ret[j]

\* The search returned two groups under a size limit that dropped a solution.
C3_Witness ==
    /\ PartitionReturned
    /\ last.args.max_group_size = 1
    /\ Len(last.ret) >= 2
    /\ Kept # Enumerated

\* C4: partition_solutions fails with ValueError exactly when the engine
\* enumerated a solution and every enumerated solution is larger than
\* max_group_size; when it enumerated none, the error is that of `solution`:
\* UnsatisfiableConstraints for UNSAT, SolutionNotFound for UNKNOWN.
C4_ValueErrorExactly ==
    PartitionEnded =>
        /\ last.exc = "ValueError" <=> (Enumerated # {} /\ Kept = {})
        /\ Enumerated = {} =>
              last.exc = IF last.limited THEN "SolutionNotFound"
                         ELSE "UnsatisfiableConstraints"

\* Every solution is larger than max_group_size.
C4_Witness ==
    /\ PartitionEnded
    /\ last.exc = "ValueError"
    /\ last.args.max_group_size = 1
    /\ Cardinality(Enumerated) >= 2

(***************************************************************************)
(* The queries (SpecSession).                                              *)
(***************************************************************************)
\* C11: once includes(x) has been called, whatever builder calls follow,
\* every solution that `solutions` yields contains x; once excludes(x) has
\* been called, none does; and once both have been called on one x,
\* `solution` raises UnsatisfiableConstraints.  (The engine decides the
\* problem: lines 151 and 201 set it no limit, so it does not report
\* UNKNOWN.)
C11_IncludesExcludesHold ==
    /\ last.op = "solutions" =>
          \A x \in Elements : \A i \in 1..Len(last.yielded) :
              /\ <<"includes", x>> \in called => x \in last.yielded[i]
              /\ <<"excludes", x>> \in called => x \notin last.yielded[i]
    /\ (last.op = "solution" /\ last.report # "UNKNOWN") =>
          \A x \in Elements :
              {<<"includes", x>>, <<"excludes", x>>} \subseteq called =>
                  last.exc = "UnsatisfiableConstraints"

\* includes("a"), then another builder call, then two solutions yielded.
C11_Witness ==
    /\ last.op = "solutions"
    /\ <<"includes", "a">> \in called
    /\ Len(clauses) >= 2
    /\ clauses[1] = <<e2id["a"]>>
    /\ Len(last.yielded) >= 2

\* C12: `solution` raises UnsatisfiableConstraints exactly when the engine
\* reports UNSAT, SolutionNotFound exactly when it reports UNKNOWN, and
\* otherwise returns exactly the elements whose variables are positive in
\* the engine's model.
C12_SolutionOutcomes ==
    last.op = "solution" =>
        /\ last.exc = "UnsatisfiableConstraints" <=> last.report = "UNSAT"
        /\ last.exc = "SolutionNotFound" <=> last.report = "UNKNOWN"
        /\ last.report \notin {"UNSAT", "UNKNOWN"} =>
              /\ last.exc = ""
              /\ last.ret =
                    {x \in DOMAIN e2id : e2id[x] \in Range(last.model)}
              /\ \A x \in DOMAIN e2id :
                    -e2id[x] \in Range(last.model) => x \notin last.ret

\* A model with one variable true and one false was returned as {"a"}.
C12_Witness ==
    /\ last.op = "solution"
    /\ last.exc = ""
    /\ Len(last.model) = 2
    /\ last.ret = {"a"}

\* C13: an iteration of `solutions` that yields nothing reads `solution` and
\* ends with its error, UnsatisfiableConstraints for UNSAT, SolutionNotFound
\* for UNKNOWN; one that yields a solution does not read `solution` and ends
\* without error.
C13_SolutionsNeverSilent ==
    last.op = "solutions" =>
        /\ last.yielded = <<>> =>
              /\ last.invoked
              /\ last.report \in {"UNSAT", "UNKNOWN"}
              /\ last.exc = IF last.report = "UNSAT"
                            THEN "UnsatisfiableConstraints"
                            ELSE "SolutionNotFound"
        /\ last.yielded # <<>> => ~last.invoked /\ last.exc = ""

\* Nothing was yielded for clauses that contradict each other.
C13_Witness ==
    /\ last.op = "solutions"
    /\ last.yielded = <<>>
    /\ ~last.limited
    /\ Len(clauses) = 2
    /\ last.exc = "UnsatisfiableConstraints"

\* A minimal_solution or maximal_solution call has ended.
ScanEnded(op) == last.op = op /\ search.pc = "idle"

\* Every solution of the problem, as a set of elements.
AllSolutions == {ElementsOf(positive(m)) : m \in itersolve(clauses)}

\* C14: for a satisfiable problem, whatever the order of enumeration,
\* minimal_solution returns a solution, and none of the solutions is
\* smaller than the one returned.
C14_MinimalIsSmallest ==
    (ScanEnded("minimal_solution") /\ ~last.limited /\ AllSolutions # {}) =>
        /\ last.exc = ""
        /\ last.ret # <<>>
        /\ last.ret[1] \in AllSolutions
        /\ \A s \in AllSolutions :
              Cardinality(last.ret[1]) <= Cardinality(s)

\* While maximal_solution iterates, the solution kept is one of those seen
\* and none seen is larger; when it returns, no solution of the problem is
\* larger than the one returned, those not enumerated included; and it
\* returns whenever the problem has a solution.
MaximalKeepsLargest ==
    /\ (search.pc = "maximal_solution" /\ search.seen # {}) =>
          /\ search.last # <<>>
          /\ search.last[1] \in search.seen
          /\ \A s \in search.seen :
                Cardinality(s) <= Cardinality(search.last[1])
    /\ (ScanEnded("maximal_solution") /\ last.exc = "") =>
          /\ last.ret # <<>>
          /\ last.ret[1] \in AllSolutions
          /\ \A s \in AllSolutions :
                Cardinality(s) <= Cardinality(last.ret[1])
    /\ (ScanEnded("maximal_solution") /\ ~last.limited
            /\ AllSolutions # {}) => last.exc = ""

\* A step of the iteration replaces the solution kept only by a strictly
\* larger one, so of the largest solutions the first seen is returned.
MaximalKeepsFirstSeen ==
    search.pc = "maximal_solution" =>
        LET kept == IF search'.pc = "idle" THEN last'.ret ELSE search'.last
        IN \/ kept = search.last
           \/ search.last = <<>>
           \/ /\ kept # <<>>
              /\ Cardinality(kept[1]) > Cardinality(search.last[1])

\* C15: for every satisfiable problem and every order of enumeration,
\* maximal_solution returns a solution of the largest size, the first seen
\* of that size; stopping at a solution as large as the registered variable
\* count does not change the result.
C15_MaximalIsLargest ==
    []MaximalKeepsLargest /\ [][MaximalKeepsFirstSeen]_vars

\* The iteration stopped at {a, b} with two smaller solutions not yet seen.
C15_Witness ==
    /\ ScanEnded("maximal_solution")
    /\ last.exc = ""
    /\ variables = 2
    /\ last.ret = <<{"a", "b"}>>
    /\ last.left = 2

(***************************************************************************)
(* Frames.                                                                 *)
(***************************************************************************)
BuilderOps ==
    {"mutually_excludes", "includes", "includes_all", "includes_any",
     "excludes", "has_codependencies", "has_dependencies"}

\* A step that is a call of a constraint builder.
BuilderStep == calls' = calls + 1 /\ last'.op \in BuilderOps

\* The clause list before the step is a prefix of the list after it, and
\* every element bound before it is bound to the same ID after it.
OnlyAppends ==
    /\ Len(clauses') >= Len(clauses)
    /\ SubSeq(clauses', 1, Len(clauses)) = clauses
    /\ \A e \in DOMAIN e2id : e \in DOMAIN e2id' /\ e2id'[e] = e2id[e]

\* C16: every call of a constraint builder, after any sequence of calls,
\* leaves the clause list it found as a prefix of the new clause list and
\* leaves every existing element-to-ID binding as it was.
C16_BuildersOnlyAppend == [][BuilderStep => OnlyAppends]_vars

\* A builder added a clause and registered an element on a problem that
\* already had a clause and an element.
C16_Witness ==
    /\ last.op \in BuilderOps
    /\ last.base >= 1
    /\ Len(clauses) > last.base
    /\ calls = 2
    /\ variables >= 2
    /\ clauses[1] = <<1>>
    /\ "b" \in DOMAIN e2id
    /\ e2id["b"] = 1

QueryOps ==
    {"solution", "solutions", "minimal_solution", "maximal_solution",
     "partition_solutions"}

\* A step of a query: it is no call counted in `calls`, and the call it
\* belongs to is the one `last` records.
QueryStep == calls' = calls /\ last'.op \in QueryOps

\* C19: no step of solution, solutions, minimal_solution, maximal_solution
\* or partition_solutions changes the clause list, the registry or the
\* variable count, so they are after the call what they were before it,
\* whether it returns or raises.
C19_QueriesReadOnly ==
    [][QueryStep =>
          UNCHANGED <<clauses, e2id, id2e, variables>>]_vars

\* minimal_solution raised on a problem of two clauses and two elements.
C19_Witness ==
    /\ ScanEnded("minimal_solution")
    /\ last.exc = "NameError"
    /\ Len(clauses) = 2
    /\ variables = 2

(***************************************************************************)
(* The partition search (SpecPartition).                                   *)
(***************************************************************************)
\* The path on top of the stack: the one popped next.
Top(st) == Last(st.stack)

\* The step expands the path on top of the stack and records it.
Expands ==
    /\ search.pc = "search"
    /\ search.stack # <<>>
    /\ search'.pc = "search"
    /\ Top(search) \notin DOMAIN search.graph
    /\ Top(search) \in DOMAIN search'.graph

\* The paths of `edges` that extend `p` by one solution, in the order of
\* the list.
ChildrenOf(p, edges) ==
    LET Extends(e) == Len(e) = Len(p) + 1 /\ SubSeq(e, 1, Len(p)) = p
    IN SelectSeq(edges, Extends)

\* The children of the path the step expands, as the step pushed them: the
\* first is the most preferred, candidates being tried largest first.
Pushed ==
    ChildrenOf(Top(search),
               search'.heap[search'.graph[Top(search)].edges])

\* C17: when a path is expanded and its children are pushed, the most
\* preferred child is on top of the stack, the next path to be expanded,
\* before any of its siblings.
C17_MostPreferredChildNext ==
    [][(Expands /\ Pushed # <<>>) => Top(search') = Pushed[1]]_vars

\* C18: the edges recorded for a path p are p extended by one candidate
\* that is not in p, shares nothing with p's pool and fits the capacity
\* left, and the pool recorded for p is the union of p's solutions.
C18_MemoHoldsOwnEdges ==
    search.pc = "search" =>
        \A p \in DOMAIN search.graph :
            LET pool == search.graph[p].pool
                edges == search.heap[search.graph[p].edges]
            IN /\ pool = UNION Range(p)
               /\ \A i \in 1..Len(edges) :
                     /\ Len(edges[i]) = Len(p) + 1
                     /\ SubSeq(edges[i], 1, Len(p)) = p
                     /\ Last(edges[i]) \in Range(search.solutions)
                     /\ Last(edges[i]) \notin Range(p)
                     /\ Last(edges[i]) \cap pool = {}
                     /\ Cardinality(Last(edges[i]))
                           <= search.target_pool_size - Cardinality(pool)

\* A path popped after it was expanded is dropped: nothing but the stack
\* changes.
DropsVisited ==
    (search.pc = "search" /\ search.stack # <<>>
        /\ Top(search) \in DOMAIN search.graph) =>
        /\ search' = [search EXCEPT
                         !.stack = SubSeq(@, 1, Len(@) - 1)]
        /\ last' = last

\* The next starting candidate is taken up when the stack of the one
\* before it is empty.
NextStartOnEmptyStack ==
    (search.pc = "search" /\ search'.pc = "search"
        /\ search'.next # search.next) =>
        /\ search.stack = <<>>
        /\ search'.next = search.next + 1
        /\ search'.stack = <<<<search.solutions[search.next]>>>>

\* The search ends by returning groups, or by raising
\* UnsatisfiableConstraints once the stack is empty and no starting
\* candidate is left.
EndsByReturnOrRaise ==
    (search.pc = "search" /\ search'.pc = "idle") =>
        \/ last'.exc = "" /\ last'.ret # <<>>
        \/ /\ last'.exc = "UnsatisfiableConstraints"
           /\ search.stack = <<>>
           /\ search.next > Len(search.solutions)

\* C20: the partition search terminates: a path is expanded once for a
\* starting candidate however often it is pushed, the stack of every
\* starting candidate empties unless the call returns first, and the call
\* ends by returning a partition or raising UnsatisfiableConstraints.
C20_SearchTerminates ==
    /\ [][DropsVisited /\ NextStartOnEmptyStack /\ EndsByReturnOrRaise]_vars
    /\ (search.pc = "search") ~> (search.pc = "idle")

\* The empty solution is a candidate, and a path that was expanded is on
\* the stack again, under two other paths.
C20_Witness ==
    /\ search.pc = "search"
    /\ {} \in Range(search.solutions)
    /\ \E i \in 1..Len(search.stack) :
          /\ search.stack[i] \in DOMAIN search.graph
          /\ i + 2 <= Len(search.stack)

====
